---- MODULE Spec2Model ----
(***************************************************************************)
(* The scrape path of synergy-wholesale-exporter: Collector.Collect,       *)
(* getDomains and its two module-level cache variables (main package,      *)
(* listed in src/README.md), and SendSOAPRequest / UnmarshalSOAPResponse   *)
(* of src/synergywholesaleapi/main.go.  Scrapes are served by net/http,    *)
(* one goroutine per request, so several callers run getDomains at once;   *)
(* every access to a module-level variable is a step of its own.           *)
(***************************************************************************)
EXTENDS Integers, Sequences, FiniteSets, TLC

\* ------------------------------------------------------------------ bounds
NumCallers == 2
MaxTime == 1
MaxScrapes == 2
MaxTTL == 1
MaxDomains == 2

Callers == 1..NumCallers

\* ------------------------------------------------------------ domain data
\* A date string "YYYY-MM-DD HH:MM:SS" is the sequence of its six numbers;
\* the empty string is <<>>, and any other sequence is text that the layout
\* does not match.
EmptyDate == <<>>
GoodDate == <<2025, 12, 25, 10, 0, 0>>
BadDate == <<2025, 13, 40>>

MkDomainInfo(st, name, prof) ==
    [Status |-> st, DomainName |-> name, DomainStatus |-> prof.ds,
     DomainExpiry |-> prof.exp, AutoRenew |-> prof.ar,
     NameServers |-> prof.ns, DNSSECKeys |-> prof.keys]

\* The shapes a domainList item takes upstream, apart from status and name.
Profiles ==
    { [ds |-> "ok", exp |-> GoodDate, ar |-> 1,
       ns |-> <<"ns1.example.com", "ns2.example.com">>, keys |-> <<"k1">>],
      [ds |-> "clientHold", exp |-> EmptyDate, ar |-> 0,
       ns |-> <<>>, keys |-> <<>>],
      [ds |-> "ok", exp |-> BadDate, ar |-> 0,
       ns |-> <<"ns1.example.com">>, keys |-> <<"k1", "k2">>],
      [ds |-> "ok", exp |-> GoodDate, ar |-> 1,
       ns |-> <<"ns1.example.com", "ns1.example.com">>, keys |-> <<>>] }

Statuses == {"OK", "ERR_DOMAIN_NOT_FOUND"}
DomainNames == {"a.com", "b.com"}

DomainInfos ==
    { MkDomainInfo(st, n, prof) : st \in Statuses, n \in DomainNames, prof \in Profiles }

SeqsUpTo(S, n) == UNION { [1..k -> S] : k \in 0..n }

DomainList(status, items) ==
    [Status |-> status, ErrorMessage |-> "", DomainList |-> items]

ListDomainsResponse(xmlname, return) == [XMLName |-> xmlname, Return |-> return]

\* api.ListDomainsResponse{}: the zero value.
ZeroResponse == ListDomainsResponse("", DomainList("", <<>>))

\* ------------------------------------------------------------ XML documents
\* A response body, as far as the decoder looks at it: whether it is
\* well-formed XML, its root element, whether the root has a Body child, the
\* element inside Body ("" when Body is empty), whether that element has a
\* return child, and what return holds.
Doc(wf, root, body, child, ret, return) ==
    [wellFormed |-> wf, root |-> root, hasBody |-> body, bodyChild |-> child,
     hasReturn |-> ret, return |-> return]

NoReturn == DomainList("", <<>>)
Garbage == Doc(FALSE, "", FALSE, "", FALSE, NoReturn)
HtmlPage == Doc(TRUE, "html", FALSE, "", FALSE, NoReturn)
BareEnvelope == Doc(TRUE, "Envelope", FALSE, "", FALSE, NoReturn)
EmptyBody == Doc(TRUE, "Envelope", TRUE, "", FALSE, NoReturn)
SoapFault == Doc(TRUE, "Envelope", TRUE, "Fault", FALSE, NoReturn)
NoReturnDoc == Doc(TRUE, "Envelope", TRUE, "listDomainsResponse", FALSE, NoReturn)
FullDoc(items) ==
    Doc(TRUE, "Envelope", TRUE, "listDomainsResponse", TRUE, DomainList("OK", items))

ProfileA == CHOOSE prof \in Profiles : prof.ds = "ok" /\ Len(prof.keys) = 1
ProfileB == CHOOSE prof \in Profiles : prof.ds = "clientHold"
ItemsA == << MkDomainInfo("OK", "a.com", ProfileA) >>
ItemsB == << MkDomainInfo("ERR_DOMAIN_NOT_FOUND", "a.com", ProfileB),
             MkDomainInfo("OK", "b.com", ProfileA) >>

\* What the HTTP exchange of one SendSOAPRequest call can come to: client.Do
\* or io.ReadAll fails (err), or a response with a status code and a body.
Exchange(err, code, body) == [err |-> err, code |-> code, body |-> body]
NoExchange == Exchange(FALSE, 0, Garbage)

Exchanges ==
    {Exchange(TRUE, 0, Garbage)}
    \cup { Exchange(FALSE, 200, d) :
            d \in {Garbage, BareEnvelope, SoapFault,
                   FullDoc(ItemsA), FullDoc(ItemsB)} }
    \cup { Exchange(FALSE, 500, d) : d \in {FullDoc(ItemsB)} }

\* A reply for every domain list within the bounds, and every other shape of
\* body.
RichExchanges ==
    { Exchange(FALSE, 200, FullDoc(items)) : items \in SeqsUpTo(DomainInfos, MaxDomains) }
    \cup { Exchange(FALSE, 200, d) :
            d \in {Garbage, HtmlPage, BareEnvelope, EmptyBody, SoapFault, NoReturnDoc} }

\* ------------------------------------------------------------ api package
\* SendSOAPRequest: the error of client.Do or io.ReadAll is returned; the
\* status code is logged and otherwise not looked at.
SendSOAPRequest(x) ==
    IF x.err THEN [err |-> TRUE, data |-> Garbage]
    ELSE [err |-> FALSE, data |-> x.body]

\* UnmarshalSOAPResponse: xml.Decoder.Decode into apiSOAPEnvelope whose Body
\* Content holds the pointer to the caller's ListDomainsResponse.  The decoder
\* fails on a syntax error and on an element whose name differs from the
\* XMLName tag of the struct it is decoded into (the root against "Envelope",
\* the element inside Body against "listDomainsResponse"); a field whose
\* element is absent is left at its zero value.
UnmarshalSOAPResponse(doc) ==
    IF ~doc.wellFormed THEN [err |-> TRUE, response |-> ZeroResponse]
    ELSE IF doc.root # "Envelope" THEN [err |-> TRUE, response |-> ZeroResponse]
    ELSE IF ~doc.hasBody THEN [err |-> FALSE, response |-> ZeroResponse]
    ELSE IF doc.bodyChild = "" THEN [err |-> FALSE, response |-> ZeroResponse]
    ELSE IF doc.bodyChild # "listDomainsResponse"
         THEN [err |-> TRUE, response |-> ZeroResponse]
    ELSE IF ~doc.hasReturn
         THEN [err |-> FALSE,
               response |-> ListDomainsResponse("listDomainsResponse", NoReturn)]
    ELSE [err |-> FALSE,
          response |-> ListDomainsResponse("listDomainsResponse", doc.return)]

\* Days from 1970-01-01 to the civil date y-m-d.
IsLeap(y) == (y % 4 = 0 /\ y % 100 # 0) \/ y % 400 = 0
DaysInMonth(y, m) ==
    IF m = 2 THEN (IF IsLeap(y) THEN 29 ELSE 28)
    ELSE IF m \in {4, 6, 9, 11} THEN 30 ELSE 31
DaysBeforeYear(y) ==
    (y - 1970) * 365 + ((y - 1969) \div 4) - ((y - 1901) \div 100) + ((y - 1601) \div 400)
RECURSIVE DaysBeforeMonth(_, _)
DaysBeforeMonth(y, m) ==
    IF m = 1 THEN 0 ELSE DaysBeforeMonth(y, m - 1) + DaysInMonth(y, m - 1)

\* time.ParseInLocation("2006-01-02 15:04:05", s, Australia/Brisbane) succeeds.
ParsesAsDate(s) ==
    /\ Len(s) = 6
    /\ s[2] \in 1..12
    /\ s[3] \in 1..DaysInMonth(s[1], s[2])
    /\ s[4] \in 0..23
    /\ s[5] \in 0..59
    /\ s[6] \in 0..59

\* Australia/Brisbane is UTC+10 with no daylight saving.
BrisbaneOffset == 36000

dateStringToTimestamp(dateString) ==
    IF dateString = <<>> THEN 0
    ELSE IF ~ParsesAsDate(dateString) THEN 0
    ELSE (DaysBeforeYear(dateString[1]) + DaysBeforeMonth(dateString[1], dateString[2])
            + dateString[3] - 1) * 86400
         + dateString[4] * 3600 + dateString[5] * 60 + dateString[6] - BrisbaneOffset

GetDomainExpiryTimestamp(domainInfo) == dateStringToTimestamp(domainInfo.DomainExpiry)

\* ------------------------------------------------------------ Collector
Metric(desc, value, labelValues) ==
    [desc |-> desc, value |-> value, labels |-> labelValues]

\* A filter that lets every record through.
SkippedNever(domain) == FALSE

\* "skip domains where api status != OK"
Skipped(domain) == domain.Status # "OK"

\* A loop that stops after the first name server.
NameServerMetricsFirstOnly(domain) ==
    [i \in 1..(IF Len(domain.NameServers) > 0 THEN 1 ELSE 0) |->
        Metric("domain_name_server_info", 1, <<domain.DomainName, domain.NameServers[i]>>)]

\* "for _, server := range domain.NameServers": one metric per entry.
NameServerMetrics(domain) ==
    [i \in 1..Len(domain.NameServers) |->
        Metric("domain_name_server_info", 1, <<domain.DomainName, domain.NameServers[i]>>)]

\* The body of Collect's loop for one domain: what it sends on the channel.
DomainMetrics(domain) ==
    IF Skipped(domain) THEN <<>>
    ELSE << Metric("domain_auto_renew_enable", domain.AutoRenew, <<domain.DomainName>>),
            Metric("domain_dnssec_key_count", Len(domain.DNSSECKeys), <<domain.DomainName>>),
            Metric("domain_expiry_timestamp_seconds", GetDomainExpiryTimestamp(domain),
                   <<domain.DomainName, domain.DomainStatus>>) >>
         \o NameServerMetrics(domain)

RECURSIVE CollectFrom(_, _)
CollectFrom(domains, i) ==
    IF i > Len(domains) THEN <<>>
    ELSE DomainMetrics(domains[i]) \o CollectFrom(domains, i + 1)

\* Collect, after getDomains has returned listDomainsResp.
CollectMetrics(listDomainsResp) == CollectFrom(listDomainsResp.Return.DomainList, 1)

\* ------------------------------------------------------------ getDomains
\* The test with the boundary on the wrong side.
CacheFreshInclusive(expires, t) == expires >= t

\* "if cacheExpires > time.Now().Unix()"
CacheFresh(expires, t) == expires > t

\* An expiry that leaves the time-to-live out.
NewExpiryNoTTL(t, ttl) == t

\* "cacheExpires = time.Now().Unix() + *cacheTTLSeconds"
NewExpiry(t, ttl) == t + ttl

\* What getDomains returns when the send or the decode returned an error.
FailureResult(stored) == ZeroResponse

\* ------------------------------------------------------------------- state
VARIABLES
    now,                  \* time.Now().Unix()
    cacheTTLSeconds,      \* the --ttl flag
    listDomainsResponse,  \* module-level: the stored response
    cacheExpires,         \* module-level: when the stored response expires
    scrapes,              \* Collect calls so far
    requests,             \* HTTP requests sent upstream so far
    storedBy,             \* which request's response listDomainsResponse holds
    expiresBy,            \* which request's refresh set cacheExpires
    pc,                   \* where each caller is
    exch,                 \* per caller: the HTTP exchange of its request
    req,                  \* per caller: the number of its request (0: none)
    data,                 \* per caller: getDomains' data
    response,             \* per caller: getDomains' response
    result,               \* per caller: what getDomains returned
    via,                  \* per caller: the return statement getDomains left by
    metrics               \* per caller: what Collect sent on ch

config == <<now, cacheTTLSeconds, scrapes>>
cache == <<listDomainsResponse, cacheExpires, storedBy, expiresBy>>
locals == <<exch, req, data, response, result, via, metrics>>
vars == <<now, cacheTTLSeconds, listDomainsResponse, cacheExpires, scrapes, requests,
          storedBy, expiresBy, pc, exch, req, data, response, result, via, metrics>>

\* Process start: both module-level variables hold their zero values.
Init ==
    /\ now = 0
    /\ cacheTTLSeconds \in 0..MaxTTL
    /\ listDomainsResponse = ZeroResponse
    /\ cacheExpires = 0
    /\ scrapes = 0
    /\ requests = 0
    /\ storedBy = 0
    /\ expiresBy = 0
    /\ pc = [p \in Callers |-> "idle"]
    /\ exch = [p \in Callers |-> NoExchange]
    /\ req = [p \in Callers |-> 0]
    /\ data = [p \in Callers |-> Garbage]
    /\ response = [p \in Callers |-> ZeroResponse]
    /\ result = [p \in Callers |-> ZeroResponse]
    /\ via = [p \in Callers |-> "none"]
    /\ metrics = [p \in Callers |-> <<>>]

\* The clock moves on.
Tick ==
    /\ now < MaxTime
    /\ now' = now + 1
    /\ UNCHANGED <<cacheTTLSeconds, scrapes, requests, pc>>
    /\ UNCHANGED cache
    /\ UNCHANGED locals

\* A scrape arrives: Collect calls getDomains.
StartCollect(p, budget) ==
    /\ pc[p] \in {"idle", "done"}
    /\ scrapes < budget
    /\ scrapes' = scrapes + 1
    /\ pc' = [pc EXCEPT ![p] = "check"]
    /\ result' = [result EXCEPT ![p] = ZeroResponse]
    /\ via' = [via EXCEPT ![p] = "none"]
    /\ metrics' = [metrics EXCEPT ![p] = <<>>]
    /\ UNCHANGED <<now, cacheTTLSeconds, requests, exch, req, data, response>>
    /\ UNCHANGED cache

\* The test of cacheExpires against the clock.
Check(p) ==
    /\ pc[p] = "check"
    /\ pc' = [pc EXCEPT ![p] = IF CacheFresh(cacheExpires, now) THEN "cached" ELSE "send"]
    /\ UNCHANGED <<config, requests>>
    /\ UNCHANGED cache
    /\ UNCHANGED locals

\* "return listDomainsResponse"
ReturnCached(p) ==
    /\ pc[p] = "cached"
    /\ result' = [result EXCEPT ![p] = listDomainsResponse]
    /\ via' = [via EXCEPT ![p] = "cached"]
    /\ pc' = [pc EXCEPT ![p] = "collect"]
    /\ UNCHANGED <<config, requests>>
    /\ UNCHANGED cache
    /\ UNCHANGED <<exch, req, data, response, metrics>>

\* SendSOAPRequest up to client.Do: the request goes out.
Send(p) ==
    /\ pc[p] = "send"
    /\ requests' = requests + 1
    /\ req' = [req EXCEPT ![p] = requests + 1]
    /\ pc' = [pc EXCEPT ![p] = "await"]
    /\ UNCHANGED config
    /\ UNCHANGED cache
    /\ UNCHANGED <<exch, data, response, result, via, metrics>>

\* getDomains returns: its locals are gone.
Leave(p, value, by) ==
    /\ result' = [result EXCEPT ![p] = value]
    /\ via' = [via EXCEPT ![p] = by]
    /\ pc' = [pc EXCEPT ![p] = "collect"]
    /\ exch' = [exch EXCEPT ![p] = NoExchange]
    /\ req' = [req EXCEPT ![p] = 0]
    /\ data' = [data EXCEPT ![p] = Garbage]
    /\ response' = [response EXCEPT ![p] = ZeroResponse]

\* A failure branch that also starts a new time-to-live.
FailExtendsExpiry(p, by) ==
    /\ Leave(p, ZeroResponse, by)
    /\ cacheExpires' = now + cacheTTLSeconds
    /\ UNCHANGED <<listDomainsResponse, storedBy, expiresBy>>

\* A failure branch that ends the goroutine instead of returning.
FailExits(p, by) ==
    /\ pc' = [pc EXCEPT ![p] = "exit"]
    /\ UNCHANGED <<exch, req, data, response, result, via>>
    /\ UNCHANGED cache

\* The two "if err != nil" branches: print the error and return the zero
\* response; neither module-level variable is assigned.
Fail(p, by) ==
    /\ Leave(p, FailureResult(listDomainsResponse), by)
    /\ UNCHANGED cache

\* The exchange ends and SendSOAPRequest returns; on an error getDomains
\* returns at once.
Receive(p, exchanges) ==
    /\ pc[p] = "await"
    /\ \E x \in exchanges :
        LET sent == SendSOAPRequest(x) IN
        IF sent.err
        THEN Fail(p, "sendError")
        ELSE /\ exch' = [exch EXCEPT ![p] = x]
             /\ data' = [data EXCEPT ![p] = sent.data]
             /\ pc' = [pc EXCEPT ![p] = "unmarshal"]
             /\ UNCHANGED <<req, response, result, via>>
             /\ UNCHANGED cache
    /\ UNCHANGED <<config, requests, metrics>>

\* UnmarshalSOAPResponse(data, &response); on an error getDomains returns.
Unmarshal(p) ==
    /\ pc[p] = "unmarshal"
    /\ LET decoded == UnmarshalSOAPResponse(data[p]) IN
       IF decoded.err
       THEN Fail(p, "decodeError")
       ELSE /\ response' = [response EXCEPT ![p] = decoded.response]
            /\ pc' = [pc EXCEPT ![p] = "store"]
            /\ UNCHANGED <<exch, req, data, result, via>>
            /\ UNCHANGED cache
    /\ UNCHANGED <<config, requests, metrics>>

\* "listDomainsResponse = response"
Store(p) ==
    /\ pc[p] = "store"
    /\ listDomainsResponse' = response[p]
    /\ storedBy' = req[p]
    /\ pc' = [pc EXCEPT ![p] = "expire"]
    /\ UNCHANGED <<config, requests, cacheExpires, expiresBy>>
    /\ UNCHANGED locals

\* "cacheExpires = time.Now().Unix() + *cacheTTLSeconds; return response"
Expire(p) ==
    /\ pc[p] = "expire"
    /\ cacheExpires' = NewExpiry(now, cacheTTLSeconds)
    /\ expiresBy' = req[p]
    /\ Leave(p, response[p], "refreshed")
    /\ UNCHANGED <<config, requests, listDomainsResponse, storedBy, metrics>>

\* Collect's loop over what getDomains returned.
Collect(p) ==
    /\ pc[p] = "collect"
    /\ metrics' = [metrics EXCEPT ![p] = CollectMetrics(result[p])]
    /\ pc' = [pc EXCEPT ![p] = "done"]
    /\ UNCHANGED <<config, requests>>
    /\ UNCHANGED cache
    /\ UNCHANGED <<exch, req, data, response, result, via>>

\* A step of caller p inside one scrape.
StepWith(p, exchanges) ==
    \/ Check(p)
    \/ ReturnCached(p)
    \/ Send(p)
    \/ Receive(p, exchanges)
    \/ Unmarshal(p)
    \/ Store(p)
    \/ Expire(p)
    \/ Collect(p)

Step(p) == StepWith(p, Exchanges)

Next ==
    \/ Tick
    \/ \E p \in Callers : StartCollect(p, MaxScrapes)
    \/ \E p \in Callers : Step(p)

Spec == Init /\ [][Next]_vars

\* Every goroutine that can take a step takes one: the Go scheduler runs each
\* runnable goroutine, and the exchange of a request that went out ends, with
\* a response or with an error.
ThreeOutcomes ==
    { Exchange(TRUE, 0, Garbage), Exchange(FALSE, 200, Garbage),
      Exchange(FALSE, 200, FullDoc(ItemsA)) }

NextFair ==
    \/ Tick
    \/ \E p \in Callers : StartCollect(p, MaxScrapes)
    \/ \E p \in Callers : StepWith(p, ThreeOutcomes)

FairSpec ==
    Init /\ [][NextFair]_vars /\ \A p \in Callers : WF_vars(StepWith(p, ThreeOutcomes))

\* One scraper, the clock held inside a positive time-to-live, and upstream
\* answering with any domain list within the bounds.
InitCollect == Init /\ cacheTTLSeconds > 0

NextCollect ==
    \/ StartCollect(1, MaxScrapes)
    \/ Check(1)
    \/ ReturnCached(1)
    \/ Send(1)
    \/ Receive(1, RichExchanges)
    \/ Unmarshal(1)
    \/ Store(1)
    \/ Expire(1)
    \/ Collect(1)

CollectSpec == InitCollect /\ [][NextCollect]_vars

\* ------------------------------------------------------------------ claims
\* Callers that have sent a request and have not yet returned from getDomains.
Refreshing == { p \in Callers : pc[p] \in {"await", "unmarshal", "store", "expire"} }

\* C1 (as claimed): single-flight refresh.  Callers that find the cache empty
\* or expired at the same time issue one upstream request between them: at no
\* time are two callers each inside a refresh of their own.
C1_SingleFlight == Cardinality(Refreshing) <= 1

\* C2: freshness boundary.  A caller that tests the cache at a time strictly
\* before cacheExpires goes on to return the stored response and sends
\* nothing; a caller that tests it at cacheExpires or later (or on the empty
\* cache, cacheExpires = 0) goes on to send a request.
C2_FreshnessBoundary ==
    [][\A p \in Callers :
        /\ (pc[p] = "check" /\ pc'[p] # "check") =>
              /\ requests' = requests
              /\ pc'[p] = (IF now < cacheExpires THEN "cached" ELSE "send")
        /\ (pc[p] = "cached" /\ pc'[p] # "cached") =>
              /\ requests' = requests
              /\ result'[p] = listDomainsResponse
              /\ via'[p] = "cached"
        /\ (pc[p] = "send" /\ pc'[p] # "send") =>
              /\ requests' = requests + 1
              /\ pc'[p] = "await"]_vars

\* C2 witness: before the expiry instant a scrape was served from the cache,
\* which the one request sent so far had filled.
C2_Witness ==
    \E p \in Callers :
        /\ pc[p] = "done" /\ via[p] = "cached"
        /\ result[p].Return.DomainList # <<>>
        /\ requests = 1
        /\ now < cacheExpires

\* No caller other than p is inside getDomains.
Alone(p) == \A q \in Callers \ {p} : pc[q] \in {"idle", "collect", "done"}

\* C3 (as claimed): failure fallback.  Once a refresh has filled the cache, a
\* later getDomains call whose send or decode fails returns the stored
\* response.
C3_FailureFallback ==
    [][\A p \in Callers :
        (/\ pc[p] \in {"await", "unmarshal"} /\ pc'[p] = "collect"
         /\ Alone(p) /\ storedBy # 0 /\ expiresBy = storedBy)
            => result'[p] = listDomainsResponse]_vars

\* C4: a failed refresh changes nothing in the cache.  The step by which a
\* getDomains call returns after a failed send or a failed decode leaves the
\* stored response and cacheExpires as they were, so a cache that was empty
\* or expired is still so for the next call.
C4_FailedRefreshFrame ==
    [][\A p \in Callers :
        (pc[p] \in {"await", "unmarshal"} /\ pc'[p] \notin {pc[p], "store"})
            => /\ listDomainsResponse' = listDomainsResponse
               /\ cacheExpires' = cacheExpires
               /\ (cacheExpires <= now => cacheExpires' <= now')]_vars

\* C4 witness: after a refresh filled the cache and the entry expired, a call
\* failed and has returned; the entry is still the expired one.
C4_Witness ==
    \E p \in Callers :
        /\ pc[p] = "done" /\ via[p] \in {"sendError", "decodeError"}
        /\ storedBy # 0 /\ expiresBy = storedBy
        /\ listDomainsResponse.Return.DomainList # <<>>
        /\ cacheExpires <= now

\* C5: a successful refresh stores the decoded response, sets cacheExpires
\* to the time of that assignment plus the time-to-live and returns the
\* decoded response; cacheExpires never moves back, so with a positive
\* time-to-live a caller that tests the cache before that instant sends
\* nothing.
C5_SuccessfulRefresh ==
    [][\A p \in Callers :
        /\ (pc[p] = "unmarshal" /\ pc'[p] = "store") =>
              response'[p] = UnmarshalSOAPResponse(data[p]).response
        /\ (pc[p] = "store" /\ pc'[p] # "store") =>
              /\ listDomainsResponse' = response[p]
              /\ pc'[p] = "expire"
        /\ (pc[p] = "expire" /\ pc'[p] # "expire") =>
              /\ cacheExpires' = now + cacheTTLSeconds
              /\ result'[p] = response[p]
              /\ via'[p] = "refreshed"
              /\ (cacheTTLSeconds > 0 => now' < cacheExpires')
        /\ cacheExpires' >= cacheExpires
        /\ (pc[p] = "check" /\ pc'[p] # "check" /\ now < cacheExpires) =>
              (pc'[p] = "cached" /\ requests' = requests)]_vars

\* C5 witness: one caller refreshed and got the new list, and a following
\* call, made before cacheExpires, was answered with that list without a
\* second request.
C5_Witness ==
    \E p, q \in Callers :
        /\ p # q
        /\ pc[p] = "done" /\ via[p] = "refreshed"
        /\ pc[q] = "done" /\ via[q] = "cached"
        /\ result[q] = result[p] /\ result[p] = listDomainsResponse
        /\ result[p].Return.DomainList # <<>>
        /\ requests = 1 /\ cacheTTLSeconds > 0 /\ now < cacheExpires

\* C6 (as claimed): the entry is replaced as a whole.  Whenever the cache
\* reads as fresh, the stored response and cacheExpires were written by the
\* same refresh.
C6_EntryWhole == (cacheExpires > now) => (storedBy = expiresBy)

\* The records of a response, and those among them with status "OK".
Records(resp) == { resp.Return.DomainList[i] : i \in DOMAIN resp.Return.DomainList }
OkOnly(resp) ==
    ListDomainsResponse(resp.XMLName,
        [resp.Return EXCEPT !.DomainList = SelectSeq(resp.Return.DomainList,
                                               LAMBDA d : d.Status = "OK")])
MetricsNaming(ms, name) == { i \in DOMAIN ms : ms[i].labels[1] = name }

\* C7 (as claimed): status filter.  When Collect is done, no metric it sent
\* carries the domain name of a record whose status is not "OK".
C7_StatusFilter ==
    \A p \in Callers :
        pc[p] = "done" =>
            \A d \in Records(result[p]) :
                d.Status # "OK" => MetricsNaming(metrics[p], d.DomainName) = {}

\* C7 (amended): no metric comes from a record whose status is not "OK".
\* What Collect sends is what it would send with those records left out of
\* the response, so each metric carries the domain name of a record with
\* status "OK", and a response without such a record yields no metric.
C7_StatusFilterByRecord ==
    \A p \in Callers :
        pc[p] = "done" =>
            /\ metrics[p] = CollectMetrics(OkOnly(result[p]))
            /\ \A i \in DOMAIN metrics[p] :
                  \E d \in Records(result[p]) :
                      d.Status = "OK" /\ d.DomainName = metrics[p][i].labels[1]
            /\ ((\A d \in Records(result[p]) : d.Status # "OK") => metrics[p] = <<>>)

\* C7 witness: Collect is done with a response that holds a record with
\* status "OK" and one with another status and another name; metrics went
\* out for the first and none for the second.
C7_Witness ==
    \E p \in Callers :
        /\ pc[p] = "done"
        /\ \E d, e \in Records(result[p]) :
              /\ d.Status = "OK" /\ e.Status # "OK" /\ e.DomainName # d.DomainName
              /\ MetricsNaming(metrics[p], d.DomainName) # {}
              /\ MetricsNaming(metrics[p], e.DomainName) = {}

\* C8: every scrape completes.  A caller that has entered getDomains gets to
\* the end of Collect, whatever the exchange comes to, and a failed refresh
\* reaches Collect as the zero response, for which it sends nothing.
C8_ScrapeCompletes ==
    /\ \A p \in Callers : (pc[p] = "check") ~> (pc[p] = "done")
    /\ [](\A p \in Callers :
            (pc[p] = "done" /\ via[p] \in {"sendError", "decodeError"})
                => (result[p] = ZeroResponse /\ metrics[p] = <<>>))

\* C8 witness: a scrape is done whose request failed in transport, and one
\* whose response body did not decode.
C8_Witness ==
    \E p, q \in Callers :
        /\ pc[p] = "done" /\ via[p] = "sendError" /\ metrics[p] = <<>>
        /\ pc[q] = "done" /\ via[q] = "decodeError" /\ metrics[q] = <<>>

\* C9 (as claimed): a response whose status code is not 2xx is a failed
\* refresh: no caller decodes or stores the body of such a response.
C9_Non2xxIsFailure ==
    \A p \in Callers :
        pc[p] \in {"unmarshal", "store", "expire"} => exch[p].code \in 200..299

\* Envelope / Body / listDomainsResponse / return are all there.
HasNesting(doc) ==
    /\ doc.wellFormed
    /\ doc.root = "Envelope"
    /\ doc.hasBody
    /\ doc.bodyChild = "listDomainsResponse"
    /\ doc.hasReturn

\* C10 (as claimed): UnmarshalSOAPResponse returns an error for a body that
\* is not well-formed XML or lacks the Envelope / Body / listDomainsResponse /
\* return nesting, so no caller gets to store what was decoded from one.
C10_MalformedIsError ==
    \A p \in Callers :
        pc[p] \in {"store", "expire"} => HasNesting(data[p])

\* The domain_name_server_info metrics among ms, in the order sent.
NameServerInfo(ms) == SelectSeq(ms, LAMBDA m : m.desc = "domain_name_server_info")

\* The name-server entries of the records with status "OK": record i of the
\* list, entry j of its NameServers.
OkEntries(resp) ==
    UNION { { <<i, j>> : j \in DOMAIN resp.Return.DomainList[i].NameServers } :
            i \in { i \in DOMAIN resp.Return.DomainList :
                        resp.Return.DomainList[i].Status = "OK" } }

\* C11: name-server fan-out.  When Collect is done, the
\* domain_name_server_info metrics it sent are one per name-server entry of
\* the records with status "OK": as many metrics as entries, each with value
\* 1, and for every pair of domain name and hostname as many metrics with
\* those two labels as there are entries of that hostname in records of that
\* name.  A record with k name servers thus accounts for exactly k of them.
C11_NameServerFanOut ==
    \A p \in Callers :
        pc[p] = "done" =>
            LET ns == NameServerInfo(metrics[p])
                list == result[p].Return.DomainList
                entries == OkEntries(result[p])
            IN  /\ Len(ns) = Cardinality(entries)
                /\ \A k \in DOMAIN ns : ns[k].value = 1 /\ Len(ns[k].labels) = 2
                /\ \A e \in entries :
                      LET name == list[e[1]].DomainName
                          host == list[e[1]].NameServers[e[2]]
                      IN  Cardinality({ k \in DOMAIN ns : ns[k].labels = <<name, host>> })
                            = Cardinality({ f \in entries :
                                  /\ list[f[1]].DomainName = name
                                  /\ list[f[1]].NameServers[f[2]] = host })

\* C11 witness: Collect is done with a response that holds a record with
\* status "OK" and two different name servers, and exactly two
\* domain_name_server_info metrics carry its domain name, one per hostname.
C11_Witness ==
    \E p \in Callers :
        /\ pc[p] = "done"
        /\ \E d \in Records(result[p]) :
              /\ d.Status = "OK"
              /\ Len(d.NameServers) = 2 /\ d.NameServers[1] # d.NameServers[2]
              /\ LET ns == NameServerInfo(metrics[p]) IN
                 /\ Cardinality(MetricsNaming(ns, d.DomainName)) = 2
                 /\ \A j \in 1..2 :
                       \E k \in DOMAIN ns :
                           ns[k] = Metric("domain_name_server_info", 1,
                                          <<d.DomainName, d.NameServers[j]>>)

====
